---- MODULE Spec2Model ----
(***************************************************************************)
(* A state-machine model of AzureServices (src/extension/src/azure/        *)
(* azureServices.ts): the session subscription list, the three             *)
(* per-resource-kind subscription caches, and the command handlers that    *)
(* run on top of them.  Every handler is cut at its awaits: one action per *)
(* synchronous stretch of code.  The auth source and the resource          *)
(* providers are the environment: their answers are drawn from small sets. *)
(***************************************************************************)
EXTENDS Integers, Sequences, FiniteSets, TLC

\* ------------------------------------------------------------ universes

\* AzureResourceType members used by the caches.
Kinds == {"AppService", "Cosmos", "Functions"}

\* Subscription labels the account can show (unique per session).
Labels == {"subA", "subB"}

\* Resource names a request can carry.
Names == {"n1"}

\* Scope tokens a request can carry.
Scopes == {"sc1", "sc2"}

\* Command handlers in flight are told apart by a task id.
Tasks == {"t1", "t2"}

\* The host of section 5 runs one command at a time: the task it uses.
HostTasks == {"t1"}

\* Number of times the subscription list may be fetched in one run.
MaxFetch == 2

\* JavaScript's undefined, for a string-valued result.
Undefined == "<undefined>"

\* What a provider's name check can answer: no reason, "", or a reason.
Reasons == {Undefined, "", "taken"}

\* The tenant of each subscription of the account.
TenantOf(label) == IF label = "subA" THEN "learnTenant" ELSE "corpTenant"

\* configuration.json's MICROSOFT_LEARN_TENANTS.
MICROSOFT_LEARN_TENANTS == {"learnTenant"}

\* ------------------------------------------------------------ values

\* A SubscriptionItem object: obj is the object's identity (the fetch that
\* built it), label and session.tenantId its fields.
SubscriptionItem(g, label) ==
  [obj |-> g, label |-> label, tenantId |-> TenantOf(label)]

\* A cache field that was never assigned (undefined).
undefinedItem == [obj |-> 0, label |-> Undefined, tenantId |-> Undefined]

\* The label sequences AzureAuth.getSubscriptions can answer with.
AccountLists == {<<>>, <<"subA">>, <<"subB">>, <<"subA", "subB">>}

\* AzureAuth.getSubscriptions(): a list of items built by this call.
getSubscriptions(g, labels) ==
  [i \in 1..Len(labels) |-> SubscriptionItem(g, labels[i])]

NoPayload == [none |-> TRUE]
NullPayload == [null |-> TRUE]

\* A message with no field set; a request sets the fields its handler reads.
IdleReq ==
  [cmd |-> "none", kind |-> "none", subscription |-> "none",
   appName |-> "none", scope |-> "none", functionNamesValid |-> TRUE,
   selected |-> {}, subscriptions |-> [k \in Kinds |-> "none"],
   parsed |-> <<>>]

\* The handler's locals: the subscription item it captured for the name check
\* and create and the one it passed to the resource group lookup; whether its
\* slot held the requested subscription once update*SubscriptionItemCache
\* was through; the name checks it called, the last answer and whether one
\* was received; the create calls it issued and what create answered; the
\* plan it chose with the tier and sku it put into the selection; the
\* resource groups it was given; what AzureAuth.login answered;
\* allSubscriptions and the per-subscription selection calls of resource
\* group planning with the order in which they resolved; its un-awaited
\* provider call with the settings sent.
IdleLoc ==
  [sub |-> undefinedItem, lookupSub |-> undefinedItem,
   resolved |-> FALSE, checks |-> 0,
   reason |-> Undefined, checked |-> FALSE,
   creates |-> 0, created |-> FALSE, result |-> <<>>,
   plan |-> "none", tier |-> "none", sku |-> "none",
   resourceGroups |-> <<>>, isLoggedIn |-> "none",
   allSubscriptions |-> <<>>, selections |-> <<>>, completed |-> <<>>,
   background |-> "none", settings |-> {}]

IdleOut ==
  [status |-> "none", payload |-> NoPayload, error |-> "none",
   message |-> "none"]

\* No validate-name command to compare the next one with.  Otherwise: the
\* kind, label and name of the last validate-name command, how it ended (none
\* while the first one runs), and whether the provider's answers have stayed
\* the same since it was issued.
NoPrevious == [key |-> <<>>, outcome |-> <<"none">>, steady |-> FALSE]

\* ------------------------------------------------------------ state

VARIABLES
  subscriptionItemList,        \* AzureServices.subscriptionItemList
  usersSubscriptionItemCache,  \* the three users*SubscriptionItemCache fields
  email,                       \* what AzureAuth.getEmail() answers
  fetches,                     \* calls of AzureAuth.getSubscriptions so far
  invalidReason,               \* the providers' name-check answer per name
  pc,                          \* per task: where its handler stands
  req,                         \* per task: the message it handles
  loc,                         \* per task: the handler's local variables
  out,                         \* per task: what the handler returned or threw
  lastEnsured,                 \* per kind: label of the last successful ensure
  previous,                    \* the validate-name command being repeated
  parsedInput,                 \* convertToSettings on its own: the argument
  converted,                   \* ... whether it has been applied
  settings,                    \* ... and its result
  webAppId,                    \* convertId on its own: the argument
  idConverted,                 \* ... whether it has been applied
  convertedId                  \* ... and its result

vars ==
  <<subscriptionItemList, usersSubscriptionItemCache, email, fetches,
    invalidReason, pc, req, loc, out, lastEnsured, previous, parsedInput,
    converted, settings, webAppId, idConverted, convertedId>>

pure ==
  <<parsedInput, converted, settings, webAppId, idConverted, convertedId>>
store ==
  <<subscriptionItemList, usersSubscriptionItemCache, lastEnsured, pure>>
shared == <<store, previous>>
env == <<email, fetches, invalidReason>>

InitSession ==
  /\ subscriptionItemList = <<>>
  /\ usersSubscriptionItemCache = [k \in Kinds |-> undefinedItem]
  /\ email \in {"", "user"}
  /\ fetches = 0
  /\ invalidReason \in [Names -> Reasons]
  /\ pc = [t \in Tasks |-> "idle"]
  /\ req = [t \in Tasks |-> IdleReq]
  /\ loc = [t \in Tasks |-> IdleLoc]
  /\ out = [t \in Tasks |-> IdleOut]
  /\ lastEnsured = [k \in Kinds |-> "none"]
  /\ previous = NoPrevious

\* convertToSettings not applied.
InitNoSettings ==
  /\ parsedInput = <<>>
  /\ converted = FALSE
  /\ settings = {}

\* convertId not applied.
InitNoId ==
  /\ webAppId = <<>>
  /\ idConverted = FALSE
  /\ convertedId = <<>>

Init ==
  /\ InitSession
  /\ InitNoSettings
  /\ InitNoId

\* ------------------------------------------------------------ helpers

Goto(t, p) == pc' = [pc EXCEPT ![t] = p]

\* The handler's promise resolves with payload.
Return(t, payload) ==
  /\ pc' = [pc EXCEPT ![t] = "done"]
  /\ out' = [out EXCEPT ![t] =
       [status |-> "ok", payload |-> payload, error |-> "none",
        message |-> "none"]]

\* The handler's promise rejects with an error of class e and message m.
Throw(t, e, m) ==
  /\ pc' = [pc EXCEPT ![t] = "done"]
  /\ out' = [out EXCEPT ![t] =
       [status |-> "error", payload |-> NoPayload, error |-> e,
        message |-> m]]

\* An awaited provider or auth call rejects: nothing catches it but the
\* rethrowing catch blocks, so the handler rejects with the same error.
ProviderThrows(t) ==
  /\ Throw(t, "ProviderError", "transport")
  /\ UNCHANGED <<shared, env, req, loc>>

\* ------------------------------------------------------------ cache

\* subscriptionItemList.find(item => item.label === subscriptionLabel)
find(subscriptionLabel) ==
  IF \E i \in 1..Len(subscriptionItemList) :
       subscriptionItemList[i].label = subscriptionLabel
  THEN LET i == CHOOSE i \in 1..Len(subscriptionItemList) :
                  /\ subscriptionItemList[i].label = subscriptionLabel
                  /\ \A j \in 1..(i - 1) :
                       subscriptionItemList[j].label # subscriptionLabel
       IN subscriptionItemList[i]
  ELSE undefinedItem

\* The guard of update*SubscriptionItemCache: the list is consulted.
cacheMiss(kind, subscriptionLabel) ==
  \/ usersSubscriptionItemCache[kind] = undefinedItem
  \/ subscriptionLabel # usersSubscriptionItemCache[kind].label

\* A variant that throws when the slot already holds the label.
updateThrows_onHit(kind, subscriptionLabel) ==
  ~cacheMiss(kind, subscriptionLabel)

\* A variant that never throws.
updateThrows_never(kind, subscriptionLabel) == FALSE

\* update*SubscriptionItemCache throws SubscriptionError.
updateThrows(kind, subscriptionLabel) ==
  /\ cacheMiss(kind, subscriptionLabel)
  /\ find(subscriptionLabel) = undefinedItem

\* A variant that fills an empty slot but keeps a slot of another label.
updateSubscriptionItemCache_keepsStale(kind, subscriptionLabel) ==
  IF usersSubscriptionItemCache[kind] = undefinedItem
       /\ find(subscriptionLabel) # undefinedItem
  THEN [usersSubscriptionItemCache EXCEPT ![kind] = find(subscriptionLabel)]
  ELSE usersSubscriptionItemCache

\* A variant whose Cosmos and Functions copies assign the AppService field.
updateSubscriptionItemCache_wrongField(kind, subscriptionLabel) ==
  IF cacheMiss(kind, subscriptionLabel)
       /\ find(subscriptionLabel) # undefinedItem
  THEN [k \in Kinds |->
          IF k = kind \/ k = "AppService" THEN find(subscriptionLabel)
          ELSE usersSubscriptionItemCache[k]]
  ELSE usersSubscriptionItemCache

\* The caches after update*SubscriptionItemCache(subscriptionLabel).
updateSubscriptionItemCache(kind, subscriptionLabel) ==
  IF cacheMiss(kind, subscriptionLabel)
       /\ find(subscriptionLabel) # undefinedItem
  THEN [usersSubscriptionItemCache EXCEPT ![kind] = find(subscriptionLabel)]
  ELSE usersSubscriptionItemCache

\* await update*SubscriptionItemCache(label) inside handler t, which goes on
\* at next when the call did not throw.  The handler's locals are the
\* caller's to set.
ensure(t, kind, subscriptionLabel, next) ==
  IF updateThrows(kind, subscriptionLabel)
  THEN /\ Throw(t, "SubscriptionError", "SUBSCRIPTION_NOT_FOUND")
       /\ UNCHANGED <<shared, env, req>>
  ELSE /\ usersSubscriptionItemCache' =
            updateSubscriptionItemCache(kind, subscriptionLabel)
       /\ lastEnsured' = [lastEnsured EXCEPT ![kind] = subscriptionLabel]
       /\ Goto(t, next)
       /\ UNCHANGED <<subscriptionItemList, pure, previous, env, req, out>>

\* A variant that takes no subscription for a Microsoft Learn one.
IsMicrosoftLearnSubscription_never(subscriptionItem) == FALSE

\* IsMicrosoftLearnSubscription(subscriptionItem)
IsMicrosoftLearnSubscription(subscriptionItem) ==
  subscriptionItem.tenantId \in MICROSOFT_LEARN_TENANTS

\* ------------------------------------------------------------ dispatch

\* The commands of clientCommandMap, as request records.
ClientCommands ==
  {[IdleReq EXCEPT !.cmd = c, !.scope = s] :
     c \in {"Login", "GetUserStatus", "Logout"}, s \in Scopes}
  \cup
  {[IdleReq EXCEPT !.cmd = "NameValidation", !.kind = k, !.subscription = l,
                   !.appName = n, !.scope = s] :
     k \in Kinds, l \in Labels, n \in Names, s \in Scopes}

\* ------------------------------------------------------------ login, status

\* A variant that fetches the subscriptions whatever getEmail answers.
statusEntry_alwaysFetches(t, mail) ==
  /\ Goto(t, "status_await")
  /\ UNCHANGED <<shared, req, out>>

\* sendUserStatusIfLoggedIn up to its await.  The handler's locals are the
\* caller's to set.
statusEntry(t, mail) ==
  IF mail # ""
  THEN /\ Goto(t, "status_await")
       /\ UNCHANGED <<shared, req, out>>
  ELSE /\ Return(t, NullPayload)
       /\ UNCHANGED <<shared, req>>

\* performLoginForSubscriptions up to await AzureAuth.login().
performLoginForSubscriptions(t) ==
  /\ pc[t] = "start" /\ req[t].cmd = "Login"
  /\ Goto(t, "login_await")
  /\ UNCHANGED <<shared, env, req, loc, out>>

\* AzureAuth.login() answers; on true the status handler is entered.
loginReturns(t) ==
  /\ pc[t] = "login_await"
  /\ \/ /\ loc' = [loc EXCEPT ![t].isLoggedIn = "true"]
        /\ email' = "user"
        /\ statusEntry(t, "user")
        /\ UNCHANGED <<fetches, invalidReason>>
     \/ /\ loc' = [loc EXCEPT ![t].isLoggedIn = "false"]
        /\ Throw(t, "AuthorizationError", "LOGIN_TIMEOUT")
        /\ UNCHANGED <<shared, env, req>>
     \/ ProviderThrows(t)

\* sendUserStatusIfLoggedIn as the GetUserStatus handler.
sendUserStatusIfLoggedIn(t) ==
  /\ pc[t] = "start" /\ req[t].cmd = "GetUserStatus"
  /\ statusEntry(t, email)
  /\ UNCHANGED <<env, loc>>

\* The list shown to the client.
subscriptionListToDisplay(list) ==
  [i \in 1..Len(list) |->
     [label |-> list[i].label, value |-> list[i].label,
      isMicrosoftLearnSubscription |-> IsMicrosoftLearnSubscription(list[i])]]

\* AzureAuth.getSubscriptions() answers: the list is replaced.
getSubscriptionsReturns(t) ==
  /\ pc[t] = "status_await"
  /\ \/ \E labels \in AccountLists :
          /\ fetches' = fetches + 1
          /\ subscriptionItemList' = getSubscriptions(fetches + 1, labels)
          /\ Return(t, [scope |-> req[t].scope, email |-> email,
                        subscriptions |->
                          subscriptionListToDisplay(subscriptionItemList')])
          /\ UNCHANGED <<usersSubscriptionItemCache, lastEnsured, pure, previous,
                         email, invalidReason, req, loc>>
     \/ ProviderThrows(t)

\* performLogout up to await AzureAuth.logout().
performLogout(t) ==
  /\ pc[t] = "start" /\ req[t].cmd = "Logout"
  /\ Goto(t, "logout_await")
  /\ UNCHANGED <<shared, env, req, loc, out>>

\* A variant that empties the list and the three slots on logout.
logoutReturns_clears(t) ==
  /\ pc[t] = "logout_await"
  /\ email' = ""
  /\ subscriptionItemList' = <<>>
  /\ usersSubscriptionItemCache' = [k \in Kinds |-> undefinedItem]
  /\ Return(t, [scope |-> req[t].scope, success |-> TRUE])
  /\ UNCHANGED <<lastEnsured, pure, previous, fetches, invalidReason, req,
                 loc>>

\* AzureAuth.logout() answers.
logoutReturns(t) ==
  /\ pc[t] = "logout_await"
  /\ \/ \E success \in BOOLEAN :
          /\ email' = IF success THEN "" ELSE email
          /\ Return(t, [scope |-> req[t].scope, success |-> success])
          /\ UNCHANGED <<shared, fetches, invalidReason, req, loc>>
     \/ ProviderThrows(t)

\* ------------------------------------------------------------ name validation

\* A variant that takes only an absent reason for "available".
isAvailable_undefinedOnly(reason) == reason = Undefined

\* isAvailable of the validation payload.
isAvailable(reason) == reason = Undefined \/ reason = ""

\* The payload of send*NameValidationStatusToClient.
validationPayload(kind, scope, reason) ==
  IF kind = "Functions"
  THEN [isAvailable |-> isAvailable(reason), reason |-> reason]
  ELSE [scope |-> scope, isAvailable |-> isAvailable(reason),
        reason |-> reason]

\* send*NameValidationStatusToClient: await update*SubscriptionItemCache.
sendNameValidationStatusToClient(t) ==
  /\ pc[t] = "start" /\ req[t].cmd = "NameValidation"
  /\ ensure(t, req[t].kind, req[t].subscription, "validate_call")
  /\ UNCHANGED loc

\* ... then the provider's name check is called with the cached item.
validationCallsProvider(t) ==
  /\ pc[t] = "validate_call"
  /\ loc' = [loc EXCEPT ![t].sub = usersSubscriptionItemCache[req[t].kind]]
  /\ Goto(t, "validate_await")
  /\ UNCHANGED <<shared, env, req, out>>

\* ... and its answer is mapped to the payload.
validationReturns(t) ==
  /\ pc[t] = "validate_await"
  /\ \/ /\ loc' = [loc EXCEPT ![t].reason = invalidReason[req[t].appName],
                                   ![t].checked = TRUE]
        /\ Return(t, validationPayload(req[t].kind, req[t].scope,
                                       invalidReason[req[t].appName]))
        /\ UNCHANGED <<shared, env, req>>
     \/ ProviderThrows(t)

\* ------------------------------------------------------------ deployment

\* CONSTANTS.SKU_DESCRIPTION: the plan descriptions' tier and name.
SKU_DESCRIPTION ==
  [FREE |-> [tier |-> "Free", name |-> "F1"],
   BASIC |-> [tier |-> "Basic", name |-> "B1"]]

\* Identifiers are strings cut into tokens no replacement splits.
MS_RESOURCE_DEPLOYMENT == "Microsoft.Resources/deployments"
MS_WEB_SITE == "Microsoft.Web/sites"
AppServiceSuffix == "-AppService"

\* rawId.replace(pattern, replacement): the first occurrence only.
RECURSIVE replace(_, _, _)
replace(str, pattern, replacement) ==
  IF str = <<>> THEN <<>>
  ELSE IF Head(str) = pattern THEN replacement \o Tail(str)
  ELSE <<Head(str)>> \o replace(Tail(str), pattern, replacement)

\* convertId(webAppId)
convertId(rawId) ==
  replace(replace(rawId, MS_RESOURCE_DEPLOYMENT, <<MS_WEB_SITE>>),
          AppServiceSuffix, <<>>)

\* What a provider's create can answer: nothing (undefined or ""), or an id.
CreateResults ==
  {<<>>,
   <<"/subscriptions/s/resourceGroups/g/providers/", MS_RESOURCE_DEPLOYMENT,
     "/", "myapp", AppServiceSuffix>>}

\* The deployments other parts of the extension ask for.
Deployments ==
  {[IdleReq EXCEPT !.cmd = "Deploy", !.kind = k, !.subscription = l,
                   !.appName = n, !.functionNamesValid = v] :
     k \in Kinds, l \in Labels, n \in Names, v \in {TRUE}}
  \cup
  {[IdleReq EXCEPT !.cmd = "Deploy", !.kind = "Functions",
                   !.subscription = l, !.appName = n,
                   !.functionNamesValid = FALSE] :
     l \in Labels, n \in Names}

\* The name check of the deploy operations throws ValidationError.
deployRejectsName(reason) == reason # Undefined /\ reason = ""

\* deployWebApp / deployFunctionApp / deployCosmosResource:
\* await update*SubscriptionItemCache.
deployStart(t) ==
  /\ pc[t] = "start" /\ req[t].cmd = "Deploy"
  /\ ensure(t, req[t].kind, req[t].subscription,
            IF req[t].kind = "AppService" THEN "deploy_asp_call"
            ELSE "deploy_rg_call")
  /\ loc' = [loc EXCEPT ![t].resolved =
         updateSubscriptionItemCache(req[t].kind,
                                     req[t].subscription)[req[t].kind].label
           = req[t].subscription]

\* deployWebApp: generateValidASPName is called.
deployCallsASPName(t) ==
  /\ pc[t] = "deploy_asp_call"
  /\ Goto(t, "deploy_asp_await")
  /\ UNCHANGED <<shared, env, req, loc, out>>

\* appServicePlan of deployWebApp: the key of the plan description chosen.
appServicePlan(subscriptionItem) ==
  IF IsMicrosoftLearnSubscription(subscriptionItem) THEN "FREE" ELSE "BASIC"

\* deployWebApp: the plan is chosen and the selection assembled from the
\* cache up to await AzureAuth.getResourceGroupItem; the selection's tier and
\* sku are read off the plan once that has answered.
deployASPNameReturns(t) ==
  /\ pc[t] = "deploy_asp_await"
  /\ \/ /\ loc' = [loc EXCEPT
              ![t].plan =
                 appServicePlan(usersSubscriptionItemCache["AppService"]),
              ![t].sub = usersSubscriptionItemCache["AppService"],
              ![t].lookupSub = usersSubscriptionItemCache["AppService"]]
        /\ Goto(t, "deploy_rg_await")
        /\ UNCHANGED <<shared, env, req, out>>
     \/ ProviderThrows(t)

\* deployFunctionApp / deployCosmosResource: the selection is assembled from
\* the cache up to await AzureAuth.getResourceGroupItem.  deployFunctionApp
\* has read the selection's subscriptionItem by then, deployCosmosResource
\* reads it once the lookup has answered.
deployCallsResourceGroupItem(t) ==
  /\ pc[t] = "deploy_rg_call"
  /\ loc' = [loc EXCEPT
        ![t].lookupSub = usersSubscriptionItemCache[req[t].kind],
        ![t].sub = IF req[t].kind = "Functions"
                   THEN usersSubscriptionItemCache[req[t].kind] ELSE @]
  /\ Goto(t, "deploy_rg_await")
  /\ UNCHANGED <<shared, env, req, out>>

\* getResourceGroupItem answers; deployFunctionApp validates the function
\* names; the provider's name check is called.
deployResourceGroupItemReturns(t) ==
  /\ pc[t] = "deploy_rg_await"
  /\ \/ IF req[t].kind = "Functions" /\ ~req[t].functionNamesValid
        THEN /\ Throw(t, "ValidationError", "functionNames")
             /\ UNCHANGED <<shared, env, req, loc>>
        ELSE /\ loc' = [loc EXCEPT
                  ![t].sub = IF req[t].kind = "Cosmos"
                             THEN usersSubscriptionItemCache["Cosmos"] ELSE @,
                  ![t].tier = IF req[t].kind = "AppService"
                              THEN SKU_DESCRIPTION[loc[t].plan].tier ELSE @,
                  ![t].sku = IF req[t].kind = "AppService"
                             THEN SKU_DESCRIPTION[loc[t].plan].name ELSE @,
                  ![t].checks = @ + 1]
             /\ Goto(t, "deploy_check_await")
             /\ UNCHANGED <<shared, env, req, out>>
     \/ ProviderThrows(t)

\* The name check answers; unless it is rejected the provider's create is
\* called.
deployCheckReturns(t) ==
  /\ pc[t] = "deploy_check_await"
  /\ \/ LET reason == invalidReason[req[t].appName] IN
        IF deployRejectsName(reason)
        THEN /\ loc' = [loc EXCEPT ![t].reason = reason,
                                   ![t].checked = TRUE]
             /\ Throw(t, "ValidationError", reason)
             /\ UNCHANGED <<shared, env, req>>
        ELSE /\ loc' = [loc EXCEPT ![t].reason = reason,
                                   ![t].checked = TRUE,
                                   ![t].creates = @ + 1]
             /\ Goto(t, "deploy_create_await")
             /\ UNCHANGED <<shared, env, req, out>>
     \/ ProviderThrows(t)

\* The value a deploy operation resolves with, given create's answer.
deployPayload(kind, result) ==
  [result |-> IF kind = "AppService" THEN convertId(result) ELSE result]

\* The provider's create answers.
deployCreateReturns(t) ==
  /\ pc[t] = "deploy_create_await"
  /\ \/ \E result \in CreateResults :
          /\ loc' = [loc EXCEPT ![t].created = TRUE, ![t].result = result]
          /\ IF req[t].kind = "AppService" /\ result = <<>>
             THEN Throw(t, "Error", "APP_SERVICE_UNDEFINED_ID")
             ELSE Return(t, deployPayload(req[t].kind, result))
          /\ UNCHANGED <<shared, env, req>>
     \/ ProviderThrows(t)

\* ------------------------------------------------------------ subscription data

\* What a listing of a subscription's resource groups can answer.
ResourceGroupLists == {<<>>, <<"rg1", "rg2">>}

\* The subscription-data and valid-name commands of clientCommandMap.
DataCommands ==
  {[IdleReq EXCEPT !.cmd = "GetSubscriptionData", !.kind = k,
                   !.subscription = l, !.scope = s] :
     k \in {"Cosmos", "AppService"}, l \in Labels, s \in Scopes}
  \cup
  {[IdleReq EXCEPT !.cmd = "GetValidName", !.kind = k, !.scope = s] :
     k \in {"Cosmos", "AppService"}, s \in Scopes}

\* getSubscriptionData up to await AzureAuth.getAllResourceGroupItems.
getSubscriptionData(t) ==
  /\ pc[t] = "start" /\ req[t].cmd = "GetSubscriptionData"
  /\ IF find(req[t].subscription) = undefinedItem
     THEN /\ Throw(t, "SubscriptionError", "SUBSCRIPTION_NOT_FOUND")
          /\ UNCHANGED <<shared, env, req, loc>>
     ELSE /\ loc' = [loc EXCEPT ![t].sub = find(req[t].subscription)]
          /\ Goto(t, "data_groups_await")
          /\ UNCHANGED <<shared, env, req, out>>

\* getAllResourceGroupItems answers; the locations are asked for.
dataGroupsReturn(t) ==
  /\ pc[t] = "data_groups_await"
  /\ \/ \E groups \in ResourceGroupLists :
          /\ loc' = [loc EXCEPT ![t].resourceGroups = groups]
          /\ Goto(t, "data_locations_await")
          /\ UNCHANGED <<shared, env, req, out>>
     \/ ProviderThrows(t)

\* The payload of send*SubscriptionDataToClient.
subscriptionDataPayload(kind, scope, groups) ==
  IF kind = "Cosmos"
  THEN [resourceGroups |-> groups, locations |-> "locations",
        validName |-> "validName", scope |-> scope]
  ELSE [resourceGroups |-> groups, locations |-> "locations",
        scope |-> scope]

\* getLocationsFor* answers; sendCosmosSubscriptionDataToClient goes on to
\* generate a name, sendAppServiceSubscriptionDataToClient resolves.
dataLocationsReturn(t) ==
  /\ pc[t] = "data_locations_await"
  /\ \/ IF req[t].kind = "Cosmos"
        THEN /\ Goto(t, "name_await")
             /\ UNCHANGED <<shared, env, req, loc, out>>
        ELSE /\ Return(t, subscriptionDataPayload(req[t].kind, req[t].scope,
                                                  loc[t].resourceGroups))
             /\ UNCHANGED <<shared, env, req, loc>>
     \/ ProviderThrows(t)

\* GetValidAppServiceName / GetValidCosmosName up to their await.
GetValidName(t) ==
  /\ pc[t] = "start" /\ req[t].cmd = "GetValidName"
  /\ Goto(t, "name_await")
  /\ UNCHANGED <<shared, env, req, loc, out>>

\* NameGenerator.generateValidAzureTypeName answers.
validNameReturns(t) ==
  /\ pc[t] = "name_await"
  /\ \/ /\ Return(t,
             IF req[t].cmd = "GetValidName"
             THEN [validName |-> "validName", scope |-> req[t].scope]
             ELSE subscriptionDataPayload(req[t].kind, req[t].scope,
                                          loc[t].resourceGroups))
        /\ UNCHANGED <<shared, env, req, loc>>
     \/ ProviderThrows(t)

\* ------------------------------------------------------------ resource groups

\* CONSTANTS.AZURE_LOCATION.CENTRAL_US
CENTRAL_US == "Central US"

\* The order in which generateDistinctResourceGroupSelections takes the kinds.
KindOrder == <<"Functions", "Cosmos", "AppService">>

\* The place in KindOrder of the first selected kind after place i, or 0.
nextSelected(selected, i) ==
  IF \E j \in (i + 1)..Len(KindOrder) : KindOrder[j] \in selected
  THEN CHOOSE j \in (i + 1)..Len(KindOrder) :
         /\ KindOrder[j] \in selected
         /\ \A h \in (i + 1)..(j - 1) : KindOrder[h] \notin selected
  ELSE 0

\* Where the handler stands once the cache of the kind at place i is updated.
pushPc(i) == <<"plan_push_Functions", "plan_push_Cosmos",
               "plan_push_AppService">>[i]

\* The planning requests: the kinds opted into and their subscriptions.
Plannings ==
  {[IdleReq EXCEPT !.cmd = "GenerateSelections",
                   !.selected = {k \in Kinds : subs[k] # "none"},
                   !.subscriptions = subs] :
     subs \in [Kinds -> Labels \cup {"none"}]}

\* [...new Set(allSubscriptions)]: one entry per object, in insertion order.
RECURSIVE distinct(_)
distinct(items) ==
  IF items = <<>> THEN <<>>
  ELSE LET front == distinct(SubSeq(items, 1, Len(items) - 1))
           last == items[Len(items)]
       IN IF \E i \in 1..Len(front) : front[i] = last
          THEN front ELSE Append(front, last)

\* The planning handler updates the cache of the kind at place i, or, with
\* no kind left, asks for a resource group name.
planFrom(t, i) ==
  IF i = 0
  THEN /\ Goto(t, "plan_name_await")
       /\ UNCHANGED <<shared, env, req, out>>
  ELSE ensure(t, KindOrder[i], req[t].subscriptions[KindOrder[i]], pushPc(i))

\* generateDistinctResourceGroupSelections up to its first await.
generateDistinctResourceGroupSelections(t) ==
  /\ pc[t] = "start" /\ req[t].cmd = "GenerateSelections"
  /\ planFrom(t, nextSelected(req[t].selected, 0))
  /\ UNCHANGED loc

\* ... the cached item of the kind just updated is pushed, and the next
\* selected kind is taken.
planPushes(t) ==
  \E i \in 1..Len(KindOrder) :
    /\ pc[t] = pushPc(i)
    /\ loc' = [loc EXCEPT ![t].allSubscriptions =
                 Append(@, usersSubscriptionItemCache[KindOrder[i]])]
    /\ planFrom(t, nextSelected(req[t].selected, i))

\* A variant that takes the name of the last group.
firstGroupName_last(resourceGroups) == resourceGroups[Len(resourceGroups)]

\* resourceGroups[0].name
firstGroupName(resourceGroups) == resourceGroups[1]

\* The name generateValidResourceGroupName answers with.
GeneratedName == "generated"

\* generateResourceGroupSelection up to its await or, without one, its result.
generateResourceGroupSelection(generatedName, subscriptionItem) ==
  [state |-> IF IsMicrosoftLearnSubscription(subscriptionItem)
             THEN "pending" ELSE "done",
   subscriptionItem |-> subscriptionItem,
   resourceGroups |-> <<>>,
   resourceGroupName |-> generatedName,
   location |-> CENTRAL_US]

\* The selection calls that resolve without waiting, in the order of their
\* start.
resolvedAtOnce(calls) ==
  SelectSeq([i \in 1..Len(calls) |-> i], LAMBDA i : calls[i].state = "done")

\* generateValidResourceGroupName answers: one selection call is started per
\* distinct subscription.
planNameReturns(t) ==
  /\ pc[t] = "plan_name_await"
  /\ \/ /\ LET subs == distinct(loc[t].allSubscriptions)
               calls == [i \in 1..Len(subs) |->
                           generateResourceGroupSelection(GeneratedName,
                                                          subs[i])]
           IN loc' = [loc EXCEPT ![t].selections = calls,
                                 ![t].completed = resolvedAtOnce(calls)]
        /\ Goto(t, "plan_all_await")
        /\ UNCHANGED <<shared, env, req, out>>
     \/ ProviderThrows(t)

\* GetResourceGroups answers one pending selection call: the name of the first
\* group is taken, and reading it off an empty list throws.
planGroupsReturn(t) ==
  /\ pc[t] = "plan_all_await"
  /\ \E i \in 1..Len(loc[t].selections) :
       /\ loc[t].selections[i].state = "pending"
       /\ \/ \E groups \in ResourceGroupLists :
               IF groups = <<>>
               THEN /\ loc' = [loc EXCEPT ![t].selections[i].state = "failed"]
                    /\ Throw(t, "TypeError", "resourceGroups[0]")
                    /\ UNCHANGED <<shared, env, req>>
               ELSE /\ loc' = [loc EXCEPT
                          ![t].selections[i].state = "done",
                          ![t].selections[i].resourceGroups = groups,
                          ![t].selections[i].resourceGroupName =
                             firstGroupName(groups),
                          ![t].completed = Append(@, i)]
                    /\ UNCHANGED <<shared, env, req, pc, out>>
          \/ /\ loc' = [loc EXCEPT ![t].selections[i].state = "failed"]
             /\ Throw(t, "ProviderError", "transport")
             /\ UNCHANGED <<shared, env, req>>

\* The ResourceGroupSelection a selection call resolved with.
selectionOf(call) ==
  [subscriptionItem |-> call.subscriptionItem,
   resourceGroupName |-> call.resourceGroupName,
   location |-> call.location]

\* A variant that lists the results in the order the calls resolved.
joined_completionOrder(calls, completed) ==
  [i \in 1..Len(calls) |-> selectionOf(calls[completed[i]])]

\* The array Promise.all resolves with: the results in the order of the calls.
joined(calls, completed) ==
  [i \in 1..Len(calls) |-> selectionOf(calls[i])]

\* Promise.all resolves once every selection call has resolved.
planJoins(t) ==
  /\ pc[t] = "plan_all_await"
  /\ \A i \in 1..Len(loc[t].selections) : loc[t].selections[i].state = "done"
  /\ Return(t, [selections |->
                  joined(loc[t].selections, loc[t].completed)])
  /\ UNCHANGED <<shared, env, req, loc>>

\* The selections deployResourceGroup is called with.
GroupDeployments ==
  {[IdleReq EXCEPT !.cmd = "DeployResourceGroup", !.subscription = l] :
     l \in Labels}

\* deployResourceGroup up to await createResourceGroup, or its return.
deployResourceGroup(t) ==
  /\ pc[t] = "start" /\ req[t].cmd = "DeployResourceGroup"
  /\ IF ~IsMicrosoftLearnSubscription(SubscriptionItem(1, req[t].subscription))
     THEN /\ loc' = [loc EXCEPT
                ![t].creates = @ + 1,
                ![t].sub = SubscriptionItem(1, req[t].subscription)]
          /\ Goto(t, "group_create_await")
          /\ UNCHANGED <<shared, env, req, out>>
     ELSE /\ Return(t, NoPayload)
          /\ UNCHANGED <<shared, env, req, loc>>

\* createResourceGroup answers.
groupCreateReturns(t) ==
  /\ pc[t] = "group_create_await"
  /\ \/ /\ Return(t, [result |-> "resourceGroup"])
        /\ UNCHANGED <<shared, env, req, loc>>
     \/ ProviderThrows(t)

\* ------------------------------------------------------------ app settings

\* Strings are sequences of characters.
Chars == {"A", "B", "=", "\n"}

\* Longest connection string parsed.
MaxLen == 8

\* Every string of at most n characters.
RECURSIVE StringsUpTo(_)
StringsUpTo(n) ==
  IF n = 0 THEN {<<>>}
  ELSE LET shorter == StringsUpTo(n - 1)
       IN shorter \cup {Append(str, c) : str \in shorter, c \in Chars}

\* str.indexOf(c), counted from 0; -1 when c does not occur.
indexOf(str, c) ==
  IF \E i \in 1..Len(str) : str[i] = c
  THEN (CHOOSE i \in 1..Len(str) :
          str[i] = c /\ \A j \in 1..(i - 1) : str[j] # c) - 1
  ELSE -1

\* str.substr(start, length) for start >= 0.
substr(str, start, length) ==
  IF length <= 0 THEN <<>>
  ELSE SubSeq(str, start + 1,
              IF start + length > Len(str) THEN Len(str) ELSE start + length)

\* str.substr(start) for start >= 0.
substrFrom(str, start) == SubSeq(str, start + 1, Len(str))

\* str.split("\n")
RECURSIVE split(_)
split(str) ==
  LET i == indexOf(str, "\n")
  IN IF i = -1 THEN <<str>>
     ELSE <<substr(str, 0, i)>> \o split(substrFrom(str, i + 1))

\* result[key] = value on an object held as a set of <<key, value>> pairs.
assign(result, key, value) ==
  {e \in result : e[1] # key} \cup {<<key, value>>}

\* A variant whose loop also visits the last segment.
fieldsVisited_all(fields) == Len(fields)

\* The number of fields convertToSettings' loop visits.
fieldsVisited(fields) == Len(fields) - 1

\* The loop of convertToSettings over fields 1..n.
RECURSIVE settingsOf(_, _)
settingsOf(fields, n) ==
  IF n <= 0 THEN {}
  ELSE LET field == fields[n]
           key == substr(field, 0, indexOf(field, "="))
           value == substrFrom(field, indexOf(field, "=") + 1)
       IN assign(settingsOf(fields, n - 1), key, value)

\* convertToSettings(parsedConnectionString)
convertToSettings(parsedConnectionString) ==
  LET fields == split(parsedConnectionString)
  IN settingsOf(fields, fieldsVisited(fields))

\* What ConnectionString.parseConnectionString hands to updateAppSettings.
ParsedSamples ==
  {<<"A", "=", "B", "\n">>, <<"A", "=", "B", "\n", "B", "=", "A">>}

\* The calls of updateAppSettings.
SettingsUpdates ==
  {[IdleReq EXCEPT !.cmd = "UpdateAppSettings", !.parsed = str] :
     str \in ParsedSamples}

\* updateAppSettings: the provider's updateAppSettings is called and not
\* awaited; the handler resolves at once.
updateAppSettings(t) ==
  /\ pc[t] = "start" /\ req[t].cmd = "UpdateAppSettings"
  /\ loc' = [loc EXCEPT ![t].settings = convertToSettings(req[t].parsed),
                        ![t].background = "pending"]
  /\ Return(t, NoPayload)
  /\ UNCHANGED <<shared, env, req>>

\* The provider's updateAppSettings settles, after the handler resolved.
appSettingsSettle(t) ==
  /\ loc[t].background = "pending"
  /\ \E result \in {"resolved", "rejected"} :
       loc' = [loc EXCEPT ![t].background = result]
  /\ UNCHANGED <<shared, env, pc, req, out>>

\* ------------------------------------------------------------ environment

\* The cloud changes what a name check answers for one name.
providerChanges ==
  /\ \E n \in Names, r \in Reasons :
       /\ invalidReason[n] # r
       /\ invalidReason' = [invalidReason EXCEPT ![n] = r]
  /\ previous' = [previous EXCEPT !.steady = FALSE]
  /\ UNCHANGED <<store, email, fetches, pc, req, loc, out>>

\* ------------------------------------------------------------ host

\* Everything the host and the rest of the extension call.
Operations ==
  ClientCommands \cup DataCommands \cup Deployments \cup Plannings
    \cup GroupDeployments \cup SettingsUpdates

\* A command that may fetch the subscription list is only taken while the
\* fetch budget lasts.
MayFetch(m) == m.cmd \in {"Login", "GetUserStatus"}

\* What two validate-name commands have in common when they are the same.
validationKey(m) == <<m.kind, m.subscription, m.appName>>

\* How a validate-name command ended: the error, or the answer.
outcomeOf(o) ==
  IF o.status = "error" THEN <<"error", o.error>>
  ELSE <<"ok", o.payload.isAvailable, o.payload.reason>>

\* A validate-name command that repeats the last command, with nothing but
\* validate-name commands in between, is compared with it.
issued(m) ==
  IF m.cmd # "NameValidation" THEN NoPrevious
  ELSE IF previous.key = validationKey(m) /\ previous.steady THEN previous
  ELSE [key |-> validationKey(m), outcome |-> <<"none">>, steady |-> TRUE]

\* The host hands message m to its handler.
Dispatch(t) ==
  /\ \A u \in Tasks : pc[u] = "idle"
  /\ \E m \in Operations :
       /\ MayFetch(m) => fetches < MaxFetch
       /\ req' = [req EXCEPT ![t] = m]
       /\ previous' = issued(m)
  /\ Goto(t, "start")
  /\ UNCHANGED <<store, env, loc, out>>

\* The host has taken the handler's result.
Finish(t) ==
  /\ pc[t] = "done"
  /\ pc' = [pc EXCEPT ![t] = "idle"]
  /\ req' = [req EXCEPT ![t] = IdleReq]
  /\ loc' = [loc EXCEPT ![t] = IdleLoc]
  /\ out' = [out EXCEPT ![t] = IdleOut]
  /\ previous' = IF req[t].cmd = "NameValidation" /\ previous.steady
                 THEN [previous EXCEPT !.outcome = outcomeOf(out[t])]
                 ELSE NoPrevious
  /\ UNCHANGED <<store, env>>

\* ------------------------------------------------------------ specification

Step(t) ==
  \/ Dispatch(t)
  \/ Finish(t)
  \/ performLoginForSubscriptions(t)
  \/ loginReturns(t)
  \/ sendUserStatusIfLoggedIn(t)
  \/ getSubscriptionsReturns(t)
  \/ performLogout(t)
  \/ logoutReturns(t)
  \/ sendNameValidationStatusToClient(t)
  \/ validationCallsProvider(t)
  \/ validationReturns(t)
  \/ deployStart(t)
  \/ deployCallsASPName(t)
  \/ deployASPNameReturns(t)
  \/ deployCallsResourceGroupItem(t)
  \/ deployResourceGroupItemReturns(t)
  \/ deployCheckReturns(t)
  \/ deployCreateReturns(t)
  \/ getSubscriptionData(t)
  \/ dataGroupsReturn(t)
  \/ dataLocationsReturn(t)
  \/ GetValidName(t)
  \/ validNameReturns(t)
  \/ generateDistinctResourceGroupSelections(t)
  \/ planPushes(t)
  \/ planNameReturns(t)
  \/ planGroupsReturn(t)
  \/ planJoins(t)
  \/ deployResourceGroup(t)
  \/ groupCreateReturns(t)
  \/ updateAppSettings(t)
  \/ appSettingsSettle(t)

Next ==
  \/ \E t \in HostTasks : Step(t)
  \/ providerChanges

Spec == Init /\ [][Next]_vars

\* Handlers in flight together: the session is logged in and holds both
\* subscriptions; validate-name and deploy commands are handed to any idle
\* task while another handler waits for a provider.
ConcurrentOperations ==
  {m \in ClientCommands : m.cmd = "NameValidation" /\ m.scope = "sc1"}
    \cup Deployments

InitConcurrent ==
  /\ subscriptionItemList = getSubscriptions(1, <<"subA", "subB">>)
  /\ usersSubscriptionItemCache = [k \in Kinds |-> undefinedItem]
  /\ email = "user"
  /\ fetches = 1
  /\ invalidReason \in [Names -> Reasons]
  /\ pc = [t \in Tasks |-> "idle"]
  /\ req = [t \in Tasks |-> IdleReq]
  /\ loc = [t \in Tasks |-> IdleLoc]
  /\ out = [t \in Tasks |-> IdleOut]
  /\ lastEnsured = [k \in Kinds |-> "none"]
  /\ previous = NoPrevious
  /\ InitNoSettings
  /\ InitNoId

\* A handler that was just called, or whose await of its own
\* update*SubscriptionItemCache has completed, runs on before any other
\* handler does: handlers give way at provider and auth calls only.
running(t) ==
  pc[t] \in {"start", "validate_call", "deploy_asp_call", "deploy_rg_call"}

DispatchConcurrent(t) ==
  /\ pc[t] = "idle"
  /\ \E m \in ConcurrentOperations : req' = [req EXCEPT ![t] = m]
  /\ previous' = NoPrevious
  /\ Goto(t, "start")
  /\ UNCHANGED <<store, env, loc, out>>

StepConcurrent(t) ==
  \/ DispatchConcurrent(t)
  \/ Finish(t)
  \/ sendNameValidationStatusToClient(t)
  \/ validationCallsProvider(t)
  \/ validationReturns(t)
  \/ deployStart(t)
  \/ deployCallsASPName(t)
  \/ deployASPNameReturns(t)
  \/ deployCallsResourceGroupItem(t)
  \/ deployResourceGroupItemReturns(t)
  \/ deployCheckReturns(t)
  \/ deployCreateReturns(t)

NextConcurrent ==
  \E t \in Tasks :
    /\ \A u \in Tasks \ {t} : ~running(u)
    /\ StepConcurrent(t)

SpecConcurrent == InitConcurrent /\ [][NextConcurrent]_vars

\* convertToSettings on its own: it is applied once to a string of at most
\* MaxLen characters, with the session left as it starts.
session ==
  <<subscriptionItemList, usersSubscriptionItemCache, email, fetches,
    invalidReason, pc, req, loc, out, lastEnsured, previous>>

InitSettings ==
  /\ InitSession
  /\ email = ""
  /\ invalidReason = [n \in Names |-> Undefined]
  /\ parsedInput \in StringsUpTo(MaxLen)
  /\ converted = FALSE
  /\ settings = {}
  /\ InitNoId

applyConvertToSettings ==
  /\ ~converted
  /\ converted' = TRUE
  /\ settings' = convertToSettings(parsedInput)
  /\ UNCHANGED <<session, parsedInput, webAppId, idConverted, convertedId>>

NextSettings == applyConvertToSettings

SpecSettings == InitSettings /\ [][NextSettings]_vars

\* convertId on its own: it is applied once to a deployment id as
\* createWebApp answers it, for a resource group and a site of any name.
\* A name is a string of at most MaxNameLen of these tokens.
NameTokens == {"g", "myapp", AppServiceSuffix}
MaxNameLen == 2

RECURSIVE NamesUpTo(_)
NamesUpTo(n) ==
  IF n = 1 THEN {<<c>> : c \in NameTokens}
  ELSE LET shorter == NamesUpTo(n - 1)
       IN shorter \cup {Append(str, c) : str \in shorter, c \in NameTokens}

\* The id of the deployment named after the site and the resource type.
deploymentId(resourceGroup, siteName) ==
  <<"/subscriptions/s/resourceGroups/">> \o resourceGroup
    \o <<"/providers/", MS_RESOURCE_DEPLOYMENT, "/">> \o siteName
    \o <<AppServiceSuffix>>

InitId ==
  /\ InitSession
  /\ email = ""
  /\ invalidReason = [n \in Names |-> Undefined]
  /\ InitNoSettings
  /\ \E resourceGroup, siteName \in NamesUpTo(MaxNameLen) :
       webAppId = deploymentId(resourceGroup, siteName)
  /\ idConverted = FALSE
  /\ convertedId = <<>>

applyConvertId ==
  /\ ~idConverted
  /\ idConverted' = TRUE
  /\ convertedId' = convertId(webAppId)
  /\ UNCHANGED <<session, parsedInput, converted, settings, webAppId>>

NextId == applyConvertId

SpecId == InitId /\ [][NextId]_vars

\* ------------------------------------------------------------ properties

\* The place in KindOrder of the kind whose cache the planning handler
\* updates next, or 0.
planPlace(t) ==
  IF req[t].cmd # "GenerateSelections" THEN 0
  ELSE IF pc[t] = "start" THEN nextSelected(req[t].selected, 0)
  ELSE IF \E i \in 1..Len(KindOrder) : pc[t] = pushPc(i)
  THEN nextSelected(req[t].selected,
                    CHOOSE i \in 1..Len(KindOrder) : pc[t] = pushPc(i))
  ELSE 0

\* The task stands right before a call of update*SubscriptionItemCache, for
\* this kind and with this label.
atEnsure(t) ==
  \/ pc[t] = "start" /\ req[t].cmd \in {"NameValidation", "Deploy"}
  \/ planPlace(t) # 0
ensureKind(t) ==
  IF planPlace(t) # 0 THEN KindOrder[planPlace(t)] ELSE req[t].kind
ensureLabel(t) ==
  IF planPlace(t) # 0 THEN req[t].subscriptions[KindOrder[planPlace(t)]]
  ELSE req[t].subscription

\* Task t runs the update*SubscriptionItemCache call it stands before.
ensureStep(t) == atEnsure(t) /\ pc'[t] # pc[t]

\* Some item of the session's list is the subscription of this label.
listed(label) ==
  \E i \in 1..Len(subscriptionItemList) : subscriptionItemList[i].label = label

\* C1: after every sequence of ensure calls, each kind's cache slot holds the
\* subscription whose label is that of the kind's most recent successful
\* ensure call (and nothing when there was none).
C1_CacheReflectsLastEnsure ==
  \A k \in Kinds :
    IF lastEnsured[k] = "none"
    THEN usersSubscriptionItemCache[k] = undefinedItem
    ELSE usersSubscriptionItemCache[k].label = lastEnsured[k]

\* A failed ensure call for a kind whose slot was filled by an earlier call
\* with another label.
C1_Witness ==
  \E t \in Tasks :
    /\ pc[t] = "done" /\ out[t].error = "SubscriptionError"
    /\ req[t].cmd = "NameValidation"
    /\ lastEnsured[req[t].kind] \in Labels \ {req[t].subscription}
    /\ usersSubscriptionItemCache[req[t].kind].obj = 2

\* C2: an ensure call whose label is absent from the current subscription
\* list raises SubscriptionNotFound and leaves the kind's slot unchanged.
C2_AbsentLabelRaises ==
  [][\A t \in Tasks :
       (ensureStep(t) /\ ~listed(ensureLabel(t)))
         => /\ out'[t].error = "SubscriptionError"
            /\ usersSubscriptionItemCache' = usersSubscriptionItemCache]_vars

\* C3: every non-empty cache slot holds a subscription of the session's
\* current subscription list.
C3_CacheWithinList ==
  \A k \in Kinds :
    usersSubscriptionItemCache[k] # undefinedItem
      => listed(usersSubscriptionItemCache[k].label)

\* C4: an ensure call for one kind leaves the other two slots and the
\* subscription list as they were, and so does every step of a validate-name
\* command.
C4_EnsureFrame ==
  [][\A t \in Tasks :
       (ensureStep(t)
          \/ (req[t].cmd = "NameValidation" /\ pc'[t] # pc[t]))
         => /\ subscriptionItemList' = subscriptionItemList
            /\ \A j \in Kinds \ {ensureKind(t)} :
                 usersSubscriptionItemCache'[j] = usersSubscriptionItemCache[j]]_vars

\* An ensure call has replaced one slot while another slot holds another
\* subscription.
C4_Witness ==
  \E j, k \in Kinds :
    /\ usersSubscriptionItemCache[j].label = "subA"
    /\ usersSubscriptionItemCache[k].label = "subB"
    /\ usersSubscriptionItemCache[k].obj = 2
    /\ usersSubscriptionItemCache[j].obj = 1

\* C5: a non-null payload a command of clientCommandMap resolves with carries
\* the scope token of its request.
C5_ScopeEchoed ==
  \A t \in Tasks :
    (/\ pc[t] = "done" /\ out[t].status = "ok"
     /\ req[t] \in ClientCommands \cup DataCommands
     /\ out[t].payload # NullPayload)
      => /\ "scope" \in DOMAIN out[t].payload
         /\ out[t].payload.scope = req[t].scope

\* C6: a deploy operation whose name check answered a non-empty reason fails
\* with a ValidationError carrying the reason and never calls create.
C6_UnavailableNameStopsDeploy ==
  \A t \in Tasks :
    (/\ req[t].cmd = "Deploy" /\ loc[t].checked
     /\ loc[t].reason \notin {Undefined, ""})
      => /\ loc[t].creates = 0
         /\ pc[t] = "done"
         /\ out[t].error = "ValidationError"
         /\ out[t].message = loc[t].reason

\* C7: once the name check of a validate-name command has answered, the
\* command resolves with isAvailable true exactly for an absent or empty
\* reason and with the provider's reason.
C7_ValidationMapsReason ==
  \A t \in Tasks :
    (req[t].cmd = "NameValidation" /\ loc[t].checked)
      => /\ pc[t] = "done" /\ out[t].status = "ok"
         /\ out[t].payload.reason = loc[t].reason
         /\ out[t].payload.isAvailable
              = (loc[t].reason = Undefined \/ loc[t].reason = "")

\* A validate-name command resolved with a non-empty reason.
C7_Witness ==
  \E t \in Tasks :
    /\ req[t].cmd = "NameValidation" /\ loc[t].checked
    /\ out[t].status = "ok"
    /\ out[t].payload.reason = "taken"
    /\ ~out[t].payload.isAvailable

\* C8: a failure of a provider call an operation issued makes the operation
\* fail with that error, and no operation resolves while a provider call it
\* issued has failed or is still pending.
C8_ProviderFailuresSurface ==
  \A t \in Tasks :
    /\ loc[t].background = "rejected"
         => out[t].status = "error" /\ out[t].error = "ProviderError"
    /\ (pc[t] = "done" /\ out[t].status = "ok")
         => loc[t].background \notin {"pending", "rejected"}

\* C9: resource group planning returns exactly one selection per distinct
\* subscription among the kinds opted into.
C9_OneSelectionPerSubscription ==
  \A t \in Tasks :
    (/\ req[t].cmd = "GenerateSelections"
     /\ pc[t] = "done" /\ out[t].status = "ok")
      => LET wanted == {req[t].subscriptions[k] : k \in req[t].selected}
             got == out[t].payload.selections
         IN /\ Len(got) = Cardinality(wanted)
            /\ \A l \in wanted :
                 Cardinality({i \in 1..Len(got) :
                               got[i].subscriptionItem.label = l}) = 1

\* A line of key=value form: an "=" after a non-empty key.
wellFormed(line) == indexOf(line, "=") >= 1

\* C10: for a string of well-formed key=value lines whose last line is not
\* followed by a newline, the settings hold an entry for every line, the
\* last one included.
C10_LastLineWithoutNewlineParsed ==
  LET fields == split(parsedInput)
  IN (/\ converted
      /\ parsedInput # <<>>
      /\ parsedInput[Len(parsedInput)] # "\n"
      /\ \A i \in 1..Len(fields) : wellFormed(fields[i]))
       => \A i \in 1..Len(fields) :
            \E e \in settings :
              e[1] = substr(fields[i], 0, indexOf(fields[i], "="))

\* The line of str that the newline at position i ends.
lineEndingAt(str, i) ==
  LET before == {j \in 1..(i - 1) : str[j] = "\n"}
      prev == IF before = {} THEN 0
              ELSE CHOOSE j \in before : \A h \in before : h <= j
  IN SubSeq(str, prev + 1, i - 1)

\* The lines of a newline-terminated string, by the place of their newline.
lineEnds(str) == {i \in 1..Len(str) : str[i] = "\n"}

\* The place of the first "=" of a line that holds one.
firstEquals(line) ==
  CHOOSE p \in 1..Len(line) :
    line[p] = "=" /\ \A q \in 1..(p - 1) : line[q] # "="

\* The text before the first "=" of a line, and everything after it.
keyOfLine(line) == SubSeq(line, 1, firstEquals(line) - 1)
valueOfLine(line) == SubSeq(line, firstEquals(line) + 1, Len(line))

\* C11: for a newline-terminated string whose lines all hold an "=", the
\* settings hold one entry per key, every entry has the text before the first
\* "=" of some line as its key and everything after that "=" as its value,
\* and every line whose key no later line repeats has its entry: nothing is
\* produced for the empty segment after the final newline.
C11_TerminatedInputParsed ==
  (/\ converted
   /\ parsedInput # <<>>
   /\ parsedInput[Len(parsedInput)] = "\n"
   /\ \A i \in lineEnds(parsedInput) :
        \E p \in 1..Len(lineEndingAt(parsedInput, i)) :
          lineEndingAt(parsedInput, i)[p] = "=")
    => /\ \A e \in settings :
            \E i \in lineEnds(parsedInput) :
              e = <<keyOfLine(lineEndingAt(parsedInput, i)),
                    valueOfLine(lineEndingAt(parsedInput, i))>>
       /\ \A i \in lineEnds(parsedInput) :
            (\A h \in lineEnds(parsedInput) :
               h > i => keyOfLine(lineEndingAt(parsedInput, h))
                          # keyOfLine(lineEndingAt(parsedInput, i)))
              => <<keyOfLine(lineEndingAt(parsedInput, i)),
                   valueOfLine(lineEndingAt(parsedInput, i))>> \in settings
       /\ \A e, f \in settings : e[1] = f[1] => e = f

\* "A=B\nB=A\n" was parsed into two entries.
C11_Witness ==
  /\ converted
  /\ parsedInput = <<"A", "=", "B", "\n", "B", "=", "A", "\n">>
  /\ settings = {<<(<<"A">>), (<<"B">>)>>, <<(<<"B">>), (<<"A">>)>>}

\* C12: a deploy operation whose create call answered with no identifier
\* fails with the generic creation error; it never resolves with an absent
\* result.
C12_AbsentIdFailsDeploy ==
  \A t \in Tasks :
    (req[t].cmd = "Deploy" /\ loc[t].created /\ loc[t].result = <<>>)
      => /\ out[t].status = "error"
         /\ out[t].error = "Error"
         /\ out[t].message = "APP_SERVICE_UNDEFINED_ID"

\* C13: in the selections resource group planning resolves with, a sandbox
\* tenant subscription has the name of the first resource group the listing
\* of that subscription answered and not the generated name, every other
\* subscription has the generated name, and the location is the default.
C13_SandboxReusesFirstGroup ==
  \A t \in Tasks :
    (/\ req[t].cmd = "GenerateSelections"
     /\ pc[t] = "done" /\ out[t].status = "ok")
      => \A i \in 1..Len(out[t].payload.selections) :
           LET selection == out[t].payload.selections[i]
               listing == loc[t].selections[i].resourceGroups
           IN /\ selection.location = "Central US"
              /\ IF TenantOf(selection.subscriptionItem.label)
                      \in MICROSOFT_LEARN_TENANTS
                 THEN /\ listing # <<>>
                      /\ selection.resourceGroupName = listing[1]
                      /\ selection.resourceGroupName # GeneratedName
                 ELSE selection.resourceGroupName = GeneratedName

\* Planning resolved with a sandbox subscription's selection and another
\* subscription's selection.
C13_Witness ==
  \E t \in Tasks :
    /\ req[t].cmd = "GenerateSelections"
    /\ pc[t] = "done" /\ out[t].status = "ok"
    /\ \E i, j \in 1..Len(out[t].payload.selections) :
         /\ out[t].payload.selections[i].subscriptionItem.label = "subA"
         /\ out[t].payload.selections[i].resourceGroupName = "rg1"
         /\ out[t].payload.selections[j].subscriptionItem.label = "subB"
         /\ out[t].payload.selections[j].resourceGroupName = GeneratedName

\* C14: the id convertId yields for a deployment id is that id with the
\* deployments type segment replaced by the sites segment and the resource
\* type suffix after the site name stripped, every other part as it was.
C14_IdNormalized ==
  idConverted
    => convertedId =
         [i \in 1..(Len(webAppId) - 1) |->
            IF webAppId[i] = MS_RESOURCE_DEPLOYMENT THEN MS_WEB_SITE
            ELSE webAppId[i]]

\* C15: a validate-name command that repeats the one before it (same kind,
\* label and name), with the provider's answers and the subscription list
\* unchanged since that one was issued, fails to resolve its subscription
\* exactly if that one did, and when the provider answered both, reports
\* the same availability and reason.
C15_ValidationIdempotent ==
  \A t \in Tasks :
    (/\ req[t].cmd = "NameValidation" /\ pc[t] = "done"
     /\ previous.steady
     /\ previous.key = validationKey(req[t])
     /\ previous.outcome # <<"none">>)
      => LET first == previous.outcome
             second == outcomeOf(out[t])
         IN /\ (first = <<"error", "SubscriptionError">>)
                 <=> (second = <<"error", "SubscriptionError">>)
            /\ (first[1] = "ok" /\ second[1] = "ok") => first = second

\* A validate-name command was answered "taken" twice in a row.
C15_Witness ==
  \E t \in Tasks :
    /\ req[t].cmd = "NameValidation" /\ pc[t] = "done"
    /\ previous.steady
    /\ previous.key = validationKey(req[t])
    /\ previous.outcome = <<"ok", FALSE, "taken">>
    /\ outcomeOf(out[t]) = <<"ok", FALSE, "taken">>

\* C16: the subscription item a validate-name or deploy handler passes to
\* the name check and create, and the one it passes to the resource group
\* lookup, have the label of the handler's own request, whatever other
\* handlers do while it waits.
C16_HandlerUsesOwnSubscription ==
  \A t \in Tasks :
    req[t].cmd \in {"NameValidation", "Deploy"}
      => /\ loc[t].sub # undefinedItem
              => loc[t].sub.label = req[t].subscription
         /\ loc[t].lookupSub # undefinedItem
              => loc[t].lookupSub.label = req[t].subscription

\* C17: a deploy operation calls create at most once, and only after its
\* subscription was resolved and its one name check has answered; the name
\* check is called only after the subscription was resolved; a deploy that
\* fails with SubscriptionNotFound has called neither.
C17_DeployOrder ==
  \A t \in Tasks :
    req[t].cmd = "Deploy"
      => /\ loc[t].creates <= 1
         /\ loc[t].creates = 1
              => loc[t].resolved /\ loc[t].checks = 1 /\ loc[t].checked
         /\ loc[t].checks >= 1 => loc[t].resolved
         /\ loc[t].created => loc[t].creates = 1
         /\ (pc[t] = "done" /\ out[t].error = "SubscriptionError")
              => loc[t].checks = 0 /\ loc[t].creates = 0

\* A deploy went through subscription resolution, its name check and create
\* and resolved.
C17_Witness ==
  \E t \in Tasks :
    /\ req[t].cmd = "Deploy" /\ pc[t] = "done" /\ out[t].status = "ok"
    /\ loc[t].resolved /\ loc[t].checks = 1 /\ loc[t].checked
    /\ loc[t].creates = 1 /\ loc[t].created

\* C18: the selection deployWebApp passes to create has the free tier exactly
\* when the tenant of the subscription item it deploys to is a Microsoft
\* Learn tenant and the basic tier otherwise, and its sku is the one of the
\* same plan description.
C18_TierFollowsTenant ==
  \A t \in Tasks :
    (req[t].cmd = "Deploy" /\ req[t].kind = "AppService"
       /\ loc[t].creates = 1)
      => /\ loc[t].sub.label = req[t].subscription
         /\ LET description ==
                   IF TenantOf(loc[t].sub.label) \in MICROSOFT_LEARN_TENANTS
                   THEN SKU_DESCRIPTION.FREE ELSE SKU_DESCRIPTION.BASIC
            IN /\ loc[t].tier = description.tier
               /\ loc[t].sku = description.name

\* deployWebApp called create with the free tier for a Microsoft Learn
\* subscription.
C18_Witness ==
  \E t \in Tasks :
    /\ req[t].cmd = "Deploy" /\ req[t].kind = "AppService"
    /\ loc[t].creates = 1
    /\ loc[t].sub.label = "subA"
    /\ loc[t].tier = SKU_DESCRIPTION.FREE.tier
    /\ loc[t].sku = SKU_DESCRIPTION.FREE.name

\* C19: the login command fails with AuthorizationError exactly when login
\* answered false; a status query resolves with the null payload exactly when
\* there is no email, and then leaves the subscription list as it was; with
\* an email the list becomes the subscriptions just fetched and the response
\* lists their labels, one entry each and in their order.
C19_LoginAndStatus ==
  [][\A t \in Tasks :
       /\ (pc[t] = "login_await" /\ pc'[t] # pc[t])
            => ((out'[t].error = "AuthorizationError")
                  <=> (loc'[t].isLoggedIn = "false"))
       /\ (pc[t] = "start" /\ req[t].cmd = "GetUserStatus"
              /\ pc'[t] # pc[t])
            => /\ (pc'[t] = "done" /\ out'[t].payload = NullPayload)
                    <=> (email = "")
               /\ email = "" => subscriptionItemList' = subscriptionItemList
       /\ (pc[t] = "status_await" /\ pc'[t] = "done"
              /\ out'[t].status = "ok")
            => /\ email # ""
               /\ out'[t].payload # NullPayload
               /\ fetches' = fetches + 1
               /\ \A i \in 1..Len(subscriptionItemList') :
                    subscriptionItemList'[i].obj = fetches'
               /\ Len(out'[t].payload.subscriptions)
                    = Len(subscriptionItemList')
               /\ \A i \in 1..Len(subscriptionItemList') :
                    out'[t].payload.subscriptions[i].label
                      = subscriptionItemList'[i].label]_vars

\* A status query replaced a list of one fetch by the two subscriptions of a
\* later fetch and listed both.
C19_Witness ==
  \E t \in Tasks :
    /\ req[t].cmd = "GetUserStatus" /\ pc[t] = "done"
    /\ out[t].status = "ok" /\ out[t].payload # NullPayload
    /\ fetches = 2
    /\ Len(out[t].payload.subscriptions) = 2
    /\ Len(subscriptionItemList) = 2
    /\ subscriptionItemList[1].obj = 2

\* C20: resource group planning resolves only when every per-subscription
\* selection call has resolved, with the result of the i-th call, the call
\* for the i-th distinct subscription, at place i whatever the order the
\* calls resolved in; when a selection call fails, planning fails.
C20_PlanningJoins ==
  \A t \in Tasks :
    req[t].cmd = "GenerateSelections"
      => /\ (pc[t] = "done" /\ out[t].status = "ok")
              => /\ \A i \in 1..Len(loc[t].selections) :
                      loc[t].selections[i].state = "done"
                 /\ Len(out[t].payload.selections)
                      = Len(distinct(loc[t].allSubscriptions))
                 /\ \A i \in 1..Len(out[t].payload.selections) :
                      /\ out[t].payload.selections[i].subscriptionItem
                           = distinct(loc[t].allSubscriptions)[i]
                      /\ out[t].payload.selections[i].resourceGroupName
                           = loc[t].selections[i].resourceGroupName
         /\ (\E i \in 1..Len(loc[t].selections) :
               loc[t].selections[i].state = "failed")
              => pc[t] = "done" /\ out[t].status = "error"

\* Planning resolved with the selection of the first subscription at the
\* first place although the call for the second one resolved first.
C20_Witness ==
  \E t \in Tasks :
    /\ req[t].cmd = "GenerateSelections"
    /\ pc[t] = "done" /\ out[t].status = "ok"
    /\ loc[t].completed = <<2, 1>>
    /\ out[t].payload.selections[1].subscriptionItem.label = "subA"
    /\ out[t].payload.selections[2].subscriptionItem.label = "subB"

\* C21: deployResourceGroup never calls createResourceGroup for a selection
\* of a Microsoft Learn tenant subscription and resolves without a result;
\* for any other subscription it calls it exactly once, with the selection
\* it was given.
C21_SandboxGroupNeverCreated ==
  \A t \in Tasks :
    (req[t].cmd = "DeployResourceGroup" /\ pc[t] # "start")
      => IF TenantOf(req[t].subscription) \in MICROSOFT_LEARN_TENANTS
         THEN /\ loc[t].creates = 0
              /\ pc[t] = "done" /\ out[t].status = "ok"
              /\ out[t].payload = NoPayload
         ELSE /\ loc[t].creates = 1
              /\ loc[t].sub.label = req[t].subscription

\* deployResourceGroup resolved for a Microsoft Learn subscription without
\* a call of createResourceGroup.
C21_Witness ==
  \E t \in Tasks :
    /\ req[t].cmd = "DeployResourceGroup" /\ pc[t] = "done"
    /\ req[t].subscription = "subA"
    /\ out[t].status = "ok" /\ out[t].payload = NoPayload
    /\ loc[t].creates = 0

\* C22: every step of the logout command leaves the subscription list and the
\* three slots as they were, and a validate-name command that starts while
\* logged out with a label that is listed, or held by its kind's slot, gets
\* past update*SubscriptionItemCache with that subscription in the slot
\* instead of failing with SubscriptionNotFound.
C22_LogoutKeepsSubscriptions ==
  [][\A t \in Tasks :
       /\ (req[t].cmd = "Logout" /\ pc'[t] # pc[t])
            => /\ subscriptionItemList' = subscriptionItemList
               /\ usersSubscriptionItemCache' = usersSubscriptionItemCache
       /\ (/\ req[t].cmd = "NameValidation" /\ pc[t] = "start"
           /\ pc'[t] # pc[t]
           /\ email = ""
           /\ \/ listed(req[t].subscription)
              \/ usersSubscriptionItemCache[req[t].kind].label
                   = req[t].subscription)
            => /\ out'[t].error # "SubscriptionError"
               /\ pc'[t] = "validate_call"
               /\ usersSubscriptionItemCache'[req[t].kind].label
                    = req[t].subscription]_vars

\* Logged out, with the list of the last login still in place, a
\* validate-name command has resolved its subscription and got its answer.
C22_Witness ==
  \E t \in Tasks :
    /\ req[t].cmd = "NameValidation" /\ pc[t] = "done"
    /\ out[t].status = "ok"
    /\ email = ""
    /\ listed(req[t].subscription)
    /\ usersSubscriptionItemCache[req[t].kind].label = req[t].subscription

====
